---- MODULE Spec2Model ----
(***************************************************************************)
(* A model of fossick.py: one run of the command line tool.                *)
(*                                                                         *)
(*   argument validation -> google_search (paginated) -> check_all_urls    *)
(*   -> bing_search -> check_all_urls -> report / save_output_csv          *)
(*                                                                         *)
(* The search APIs, the probed web servers and the local file system are   *)
(* the environment: every answer they can give is a nondeterministic       *)
(* choice of the action that consumes it.                                  *)
(***************************************************************************)
EXTENDS Integers, Sequences, FiniteSets, TLC

\* ------------------------------------------------------------------------
\* Bounds of the environment
\* ------------------------------------------------------------------------

\* Number of results a search index holds for the query in a full run.
MaxResults == 1

\* Length of the URL list handed to check_all_urls when it is called alone.
MaxUrls == 3

\* Number of records handed to save_output_csv when it is called alone.
MaxRows == 2

\* ------------------------------------------------------------------------
\* Program constants
\* ------------------------------------------------------------------------

\* `start = 1`
FirstStart == 1

\* `while start <= 100`
Ceiling == 100

\* `start = start + 10`
PageStep == 10

\* The API returns at most 10 results per call.
PageCap == 10

\* `response.status == 200`
HTTP_OK == 200

\* Faulty variant: gather without return_exceptions.
return_exceptions_off == FALSE

\* asyncio.gather(*tasks, return_exceptions=True)
return_exceptions == TRUE

\* ------------------------------------------------------------------------
\* Values
\* ------------------------------------------------------------------------

\* URLs are strings, kept as sequences of tokens so that os.path.basename
\* is computed, not assumed.  "a/x" has the final path segment "x", "b/"
\* has an empty final path segment.
URL_AX == <<"a", "/", "x">>

URL_B == <<"b", "/">>

URLS == {URL_AX, URL_B}

\* The statuses a probed server answers with.
STATUSES == {200, 404}

\* The body a server sends for a URL.
Body(url) == <<"body of">> \o url

Max(S) == CHOOSE m \in S : \A n \in S : n <= m

Min(a, b) == IF a <= b THEN a ELSE b

\* All sequences over S of length exactly n / at most n.
SeqN(S, n) == [1..n -> S]

SeqUpTo(S, n) == UNION {SeqN(S, k) : k \in 0..n}

\* os.path.basename(url): what follows the last "/".
basename(url) ==
    LET slashes == {i \in 1..Len(url) : url[i] = "/"}
        last == IF slashes = {} THEN 0 ELSE Max(slashes)
    IN  SubSeq(url, last + 1, Len(url))

\* {'search_engine': search_engine, 'url': url, 'http_code': http_code}
Outcome(engine, url, code) ==
    [search_engine |-> engine, url |-> url, http_code |-> code]

\* An exception object, as gather(return_exceptions=True) hands it back.
Exception(name) == [exception |-> name]

IsException(x) == DOMAIN x = {"exception"}

IsOutcome(x) == DOMAIN x = {"search_engine", "url", "http_code"}

\* A task that has not produced anything yet.
NoResult == [pending |-> TRUE]

\* An uncaught exception, with the function that raised it.
Uncaught(type, where) == [type |-> type, where |-> where]

NoExc == Uncaught("none", "none")

\* ------------------------------------------------------------------------
\* State
\* ------------------------------------------------------------------------
VARIABLES
    ARGS,                   \* the parsed command line
    pc,                     \* position of the main thread
    exc,                    \* the exception that ended the run, or "none"
    start,                  \* google_search: next start offset
    google_search_results,  \* google_search: pages gathered / value returned
    requested,              \* start offsets requested from the Google API
    served,                 \* sizes of the pages the Google API has served
    bing_search_results,    \* value returned by bing_search
    bing_calls,             \* requests made to the Bing API
    urls,                   \* check_all_urls: its URL list
    search_engine,          \* check_all_urls: its engine tag
    session,                \* check_all_urls: the aiohttp.ClientSession
    sessions,               \* ClientSession objects created so far
    tasks,                  \* check_all_urls: one coroutine per URL
    responses,              \* check_all_urls: the value it returned
    probes_issued,          \* GET requests issued over the whole run
    files,                  \* the working directory: file name -> content
    results,                \* main: the merged list
    printed,                \* records logged by main
    csv_file,               \* fossick-results.csv
    csv_error               \* save_output_csv has logged an OSError

vars == <<ARGS, pc, exc, start, google_search_results, requested, served,
          bing_search_results, bing_calls, urls, search_engine, session, sessions,
          tasks, responses, probes_issued, files, results, printed, csv_file,
          csv_error>>

googleVars == <<start, google_search_results, requested, served>>

bingVars == <<bing_search_results, bing_calls>>

batchVars ==
    <<urls, search_engine, session, sessions, tasks, responses, probes_issued>>

sinkVars == <<printed, csv_file, csv_error>>

\* ------------------------------------------------------------------------
\* Argument validation (module level)
\* ------------------------------------------------------------------------

\* Every field is the truthiness of the argument: FALSE is absent or empty.
ArgsSpace ==
    [search_query : BOOLEAN, google_api : BOOLEAN, google_cse : BOOLEAN,
     bing_key : BOOLEAN, download : BOOLEAN, write_csv : BOOLEAN]

\* `if ARGS.google_api and ARGS.google_cse`
GoogleConfigured(args) == args.google_api /\ args.google_cse

\* `if ARGS.bing_key`
BingConfigured(args) == args.bing_key

\* Faulty variant: the error only when every credential is missing.
NoEngineMutant(args) == ~args.google_api /\ ~args.google_cse /\ ~args.bing_key

\* `(not ARGS.google_api or not ARGS.google_cse) and not ARGS.bing_key`
NoEngine(args) == (~args.google_api \/ ~args.google_cse) /\ ~args.bing_key

NoPages == [err |-> FALSE, pages |-> <<>>]

NoBing == [kind |-> "none", webPages |-> FALSE, value |-> <<>>]

NoCsv == [exists |-> FALSE, rows |-> <<>>]

\* File names a download can create, and a file that does not exist.
FileNames == {basename(u) : u \in URLS} \ {<<>>}

NoFile == [exists |-> FALSE, content |-> <<>>]

InitWith(argsSet, where) ==
    /\ ARGS \in argsSet
    /\ pc = where
    /\ exc = NoExc
    /\ start = FirstStart
    /\ google_search_results = NoPages
    /\ requested = <<>>
    /\ served = <<>>
    /\ bing_search_results = NoBing
    /\ bing_calls = 0
    /\ urls = <<>>
    /\ search_engine = "none"
    /\ session = "none"
    /\ sessions = 0
    /\ tasks = <<>>
    /\ responses = <<>>
    /\ probes_issued = 0
    /\ files = [n \in FileNames |-> NoFile]
    /\ results = <<>>
    /\ printed = <<>>
    /\ csv_file = NoCsv
    /\ csv_error = FALSE

Init == InitWith(ArgsSpace, "parse")

\* PARSER.error(...) prints the usage and exits with status 2.
ParseArgs ==
    /\ pc = "parse"
    /\ pc' = IF ~ARGS.search_query \/ NoEngine(ARGS) THEN "config_error" ELSE "main"
    /\ UNCHANGED <<ARGS, exc, googleVars, bingVars, batchVars, files, results,
                   sinkVars>>

\* ------------------------------------------------------------------------
\* google_search / extract_google_urls
\* ------------------------------------------------------------------------

\* main: `results = []`, then `if ARGS.google_api and ARGS.google_cse`.
MainGoogle ==
    /\ pc = "main"
    /\ pc' = IF GoogleConfigured(ARGS) THEN "google_search" ELSE "bing"
    /\ UNCHANGED <<ARGS, exc, googleVars, bingVars, batchVars, files, results,
                   sinkVars>>

\* Faulty variant: one iteration too many.
LoopMutant(s) == s <= Ceiling + PageStep

\* `while start <= 100`
LoopContinues(s) == s <= Ceiling

\* Faulty variant: an empty page does not end the loop.
HasItemsMutant(page) == TRUE

\* `if response.get('items')`: a page without items ends the loop.
HasItems(page) == page # <<>>

\* One iteration of the loop: the request at `start` is answered with a page.
GooglePage(page) ==
    /\ pc = "google_search"
    /\ LoopContinues(start)
    /\ requested' = Append(requested, start)
    /\ served' = Append(served, Len(page))
    /\ IF HasItems(page)
       THEN /\ google_search_results' =
                   [google_search_results EXCEPT !.pages = Append(@, page)]
            /\ start' = start + PageStep
            /\ pc' = IF LoopContinues(start') THEN "google_search" ELSE "google_done"
       ELSE /\ pc' = "google_done"
            /\ UNCHANGED <<start, google_search_results>>
    /\ UNCHANGED <<ARGS, exc, bingVars, batchVars, files, results, sinkVars>>

\* Faulty variant: the pages gathered so far are handed back.
OnHttpErrorKeep(res) == [res EXCEPT !.err = TRUE]

\* `return ''`: whatever `results` held is dropped.
OnHttpError(res) == [err |-> TRUE, pages |-> <<>>]

\* `except HttpError`: the API answered with an error status; '' is returned.
GoogleHttpError ==
    /\ pc = "google_search"
    /\ LoopContinues(start)
    /\ requested' = Append(requested, start)
    /\ google_search_results' = OnHttpError(google_search_results)
    /\ pc' = "google_done"
    /\ UNCHANGED <<ARGS, exc, start, served, bingVars, batchVars, files, results,
                   sinkVars>>

\* Any other exception of execute() (no route, timeout, reset) is not an
\* HttpError: nothing catches it and the run ends with a traceback.
GoogleTransportError ==
    /\ pc = "google_search"
    /\ LoopContinues(start)
    /\ requested' = Append(requested, start)
    /\ pc' = "crashed"
    /\ exc' = Uncaught("TransportError", "google_search")
    /\ UNCHANGED <<ARGS, start, google_search_results, served, bingVars, batchVars,
                   files, results, sinkVars>>

RECURSIVE Flatten(_)
Flatten(pages) ==
    IF pages = <<>> THEN <<>> ELSE Head(pages) \o Flatten(Tail(pages))

\* `item.get('link')` of every item of every page, in order.
extract_google_urls(res) ==
    LET items == Flatten(res.pages)
    IN  [i \in 1..Len(items) |-> items[i].link]

\* `if google_search_results`: '' and [] are both false.
GoogleTruthy(res) == ~res.err /\ res.pages # <<>>


\* ------------------------------------------------------------------------
\* check_all_urls / check_url_status
\* ------------------------------------------------------------------------

\* A coroutine object of check_url_status, not yet run.
\* `file` is what the task has done to its local file so far, `gets` the
\* number of GET requests it has issued.
\* `session` is the session the coroutine was given, `get_on` the state of
\* the session when the GET was issued on it.
NewTask(sid) ==
    [pc |-> "created", http_code |-> 0, file |-> "none", gets |-> 0,
     session |-> sid, get_on |-> "none", result |-> NoResult]

\* Faulty variant: the coroutines are run after the session is closed.
EnterBatchSessionClosed(urlList, engine) ==
    /\ urls' = urlList
    /\ search_engine' = engine
    /\ session' = "closed"
    /\ sessions' = sessions + 1
    /\ tasks' = [i \in 1..Len(urlList) |-> NewTask(sessions')]
    /\ responses' = <<>>
    /\ UNCHANGED probes_issued

\* `async with aiohttp.ClientSession() as session`, one coroutine per URL,
\* each given that session.  Written as the primed part of the action that
\* calls check_all_urls.
EnterBatch(urlList, engine) ==
    /\ urls' = urlList
    /\ search_engine' = engine
    /\ session' = "open"
    /\ sessions' = sessions + 1
    /\ tasks' = [i \in 1..Len(urlList) |-> NewTask(sessions')]
    /\ responses' = <<>>
    /\ UNCHANGED probes_issued

\* main: `if google_search_results`, extract_google_urls, asyncio.run(...).
MainGoogleResults ==
    /\ pc = "google_done"
    /\ IF GoogleTruthy(google_search_results)
       THEN /\ EnterBatch(extract_google_urls(google_search_results), "Google")
            /\ pc' = "check_all_urls"
       ELSE /\ pc' = "bing"
            /\ UNCHANGED batchVars
    /\ UNCHANGED <<ARGS, exc, googleVars, bingVars, files, results, sinkVars>>

Finish(i, value) ==
    tasks' = [tasks EXCEPT ![i] = [@ EXCEPT !.pc = "done", !.result = value]]

\* Faulty variant: the coroutines are awaited one after the other.
RunningInTurn(i) ==
    /\ pc = "check_all_urls"
    /\ i \in DOMAIN tasks
    /\ \A j \in 1..(i - 1) : tasks[j].pc = "done"

\* gather runs every coroutine as a task of its own: task i can take its
\* next step whatever the others are doing.
Running(i) == pc = "check_all_urls" /\ i \in DOMAIN tasks

\* `session.get(url)`: the task is scheduled and issues its GET.
TaskStart(i) ==
    /\ Running(i)
    /\ tasks[i].pc = "created"
    /\ tasks' = [tasks EXCEPT ![i] = [@ EXCEPT !.pc = "get", !.gets = @ + 1,
                                                  !.get_on = session]]
    /\ probes_issued' = probes_issued + 1
    /\ UNCHANGED <<ARGS, pc, exc, googleVars, bingVars, urls, search_engine, session, sessions,
                   responses, files, results, sinkVars>>

\* Faulty variant: the status is not looked at.
WantsDownloadMutant(code) == ARGS.download

\* `response.status == 200 and ARGS.download`
WantsDownload(code) == code = HTTP_OK /\ ARGS.download

\* The server answers: `http_code = response.status`, then either the
\* download branch or the return.
Respond(i, code) ==
    /\ Running(i)
    /\ tasks[i].pc = "get"
    /\ IF WantsDownload(code)
       THEN tasks' = [tasks EXCEPT ![i] = [@ EXCEPT !.pc = "open", !.http_code = code]]
       ELSE tasks' = [tasks EXCEPT ![i] = [@ EXCEPT !.pc = "done", !.http_code = code,
                         !.result = Outcome(search_engine, urls[i], code)]]
    /\ UNCHANGED <<ARGS, pc, exc, googleVars, bingVars, urls, search_engine, session, sessions,
                   responses, probes_issued, files, results, sinkVars>>

\* Faulty variant: a failed GET is tried again.
RespondFailRetry(i) ==
    /\ Running(i)
    /\ tasks[i].pc = "get"
    /\ tasks' = [tasks EXCEPT ![i].pc = "created"]
    /\ UNCHANGED <<ARGS, pc, exc, googleVars, bingVars, urls, search_engine, session, sessions,
                   responses, probes_issued, files, results, sinkVars>>

\* The GET fails (DNS, refused, timeout, malformed URL): session.get raises.
RespondFail(i) ==
    /\ Running(i)
    /\ tasks[i].pc = "get"
    /\ Finish(i, Exception("ClientError"))
    /\ UNCHANGED <<ARGS, pc, exc, googleVars, bingVars, urls, search_engine, session, sessions,
                   responses, probes_issued, files, results, sinkVars>>

\* `f = await aiofiles.open(os.path.basename(url), mode='wb')`: creates or
\* truncates the file; an empty name, or a refusing file system, raises.
Open(i, ok) ==
    /\ Running(i)
    /\ tasks[i].pc = "open"
    /\ LET name == basename(urls[i])
       IN  IF name # <<>> /\ ok
           THEN /\ files' = [files EXCEPT ![name] = [exists |-> TRUE, content |-> <<>>]]
                /\ tasks' = [tasks EXCEPT ![i] = [@ EXCEPT !.pc = "write",
                                                              !.file = "created"]]
           ELSE /\ Finish(i, Exception("OSError"))
                /\ UNCHANGED files
    /\ UNCHANGED <<ARGS, pc, exc, googleVars, bingVars, urls, search_engine, session, sessions,
                   responses, probes_issued, results, sinkVars>>

\* `await f.write(await response.read())`: how == "ok", or the body read
\* fails ("read"), or the write fails ("write").
Write(i, how) ==
    /\ Running(i)
    /\ tasks[i].pc = "write"
    /\ LET name == basename(urls[i])
       IN  CASE how = "ok" ->
                  /\ files' = [files EXCEPT ![name] =
                                  [exists |-> TRUE, content |-> Body(urls[i])]]
                  /\ tasks' = [tasks EXCEPT ![i] = [@ EXCEPT !.pc = "close",
                                                                !.file = "written"]]
             [] how = "read" ->
                  /\ Finish(i, Exception("ClientError"))
                  /\ UNCHANGED files
             [] OTHER ->
                  /\ Finish(i, Exception("OSError"))
                  /\ UNCHANGED files
    /\ UNCHANGED <<ARGS, pc, exc, googleVars, bingVars, urls, search_engine, session, sessions,
                   responses, probes_issued, results, sinkVars>>

\* `await f.close()`, then the return of the record.
Close(i, ok) ==
    /\ Running(i)
    /\ tasks[i].pc = "close"
    /\ IF ok
       THEN Finish(i, Outcome(search_engine, urls[i], tasks[i].http_code))
       ELSE Finish(i, Exception("OSError"))
    /\ UNCHANGED <<ARGS, pc, exc, googleVars, bingVars, urls, search_engine, session, sessions,
                   responses, probes_issued, files, results, sinkVars>>

Failed(t) == t.pc = "done" /\ IsException(t.result)

AllDone(ts) == \A i \in DOMAIN ts : ts[i].pc = "done"

\* Faulty variant: the exceptions are dropped from the result.
GatherResultsMutant(ts) ==
    SelectSeq([i \in DOMAIN ts |-> ts[i].result], LAMBDA r : ~IsException(r))

\* Faulty variant: the results come back in the opposite order.
GatherResultsReversed(ts) == [i \in DOMAIN ts |-> ts[Len(ts) + 1 - i].result]

\* What gather hands back: the result of every awaitable, by position.
GatherResults(ts) == [i \in DOMAIN ts |-> ts[i].result]

\* Faulty variant: a batch is put in front of what `results` holds.
ExtendFront(rs, xs) == xs \o rs

\* `results.extend(...)`
Extend(rs, xs) == rs \o xs

\* Faulty variant: gather is done with the first task that is.
GatherReadyFirst(ts) == ts = <<>> \/ \E i \in DOMAIN ts : ts[i].pc = "done"

\* gather is done when every task is; without return_exceptions it raises
\* as soon as one task has raised.
GatherReady(ts) ==
    \/ AllDone(ts)
    \/ ~return_exceptions /\ \E i \in DOMAIN ts : Failed(ts[i])

\* `responses = await asyncio.gather(...)`, `return responses`, the session
\* is closed on the way out, and main extends `results`.  An exception that
\* gather raises leaves through asyncio.run, which cancels what still runs.
Gather ==
    /\ pc = "check_all_urls"
    /\ GatherReady(tasks)
    /\ session' = "closed"
    /\ IF return_exceptions \/ ~\E i \in DOMAIN tasks : Failed(tasks[i])
       THEN /\ responses' = GatherResults(tasks)
            /\ results' = Extend(results, responses')
            /\ pc' = IF search_engine = "Google" THEN "bing" ELSE "report"
            /\ UNCHANGED <<tasks, exc>>
       ELSE /\ tasks' = [i \in DOMAIN tasks |->
                           IF tasks[i].pc = "done" THEN tasks[i]
                           ELSE [tasks[i] EXCEPT !.pc = "cancelled"]]
            /\ pc' = "crashed"
            /\ exc' = Uncaught((CHOOSE t \in {tasks[i] : i \in DOMAIN tasks} :
                                    Failed(t)).result.exception, "check_url_status")
            /\ UNCHANGED <<responses, results>>
    /\ UNCHANGED <<ARGS, googleVars, bingVars, urls, search_engine, sessions,
                   probes_issued, files, sinkVars>>

\* ------------------------------------------------------------------------
\* bing_search / extract_bing_urls
\* ------------------------------------------------------------------------

\* main: `if ARGS.bing_key`
MainBing ==
    /\ pc = "bing"
    /\ pc' = IF BingConfigured(ARGS) THEN "bing_search" ELSE "report"
    /\ UNCHANGED <<ARGS, exc, googleVars, bingVars, batchVars, files, results,
                   sinkVars>>

\* '' after an exception of requests.get or of response.json().
BingFailed == [kind |-> "error", webPages |-> FALSE, value |-> <<>>]

\* A JSON answer without the webPages member: an error body (401, 403,
\* 5xx) or an answer without web results.
BingNoWebPages == [kind |-> "json", webPages |-> FALSE, value |-> <<>>]

BingWebPages(items) == [kind |-> "json", webPages |-> TRUE, value |-> items]

\* bing_search: one request, whatever it yields is returned.
BingSearch(answer) ==
    /\ pc = "bing_search"
    /\ bing_calls' = bing_calls + 1
    /\ bing_search_results' = answer
    /\ pc' = "bing_done"
    /\ UNCHANGED <<ARGS, exc, googleVars, batchVars, files, results, sinkVars>>

\* `if bing_search_results`: '' is false, a JSON object with members true.
BingTruthy(res) == res.kind = "json"

\* `results.get('webPages')` is None when the member is absent.
HasWebPages(res) == res.webPages

\* `item.get('url')` of every item of webPages.value, in order.
extract_bing_urls(res) == [i \in 1..Len(res.value) |-> res.value[i].url]

\* main: `if bing_search_results`, extract_bing_urls, asyncio.run(...).
\* `web_pages.get('value')` on None raises AttributeError, uncaught.
MainBingResults ==
    /\ pc = "bing_done"
    /\ IF ~BingTruthy(bing_search_results)
       THEN /\ pc' = "report"
            /\ UNCHANGED <<exc, batchVars>>
       ELSE IF HasWebPages(bing_search_results)
       THEN /\ EnterBatch(extract_bing_urls(bing_search_results), "Bing")
            /\ pc' = "check_all_urls"
            /\ UNCHANGED exc
       ELSE /\ pc' = "crashed"
            /\ exc' = Uncaught("AttributeError", "extract_bing_urls")
            /\ UNCHANGED batchVars
    /\ UNCHANGED <<ARGS, googleVars, bingVars, files, results, sinkVars>>

\* ------------------------------------------------------------------------
\* Reporting: the console loop of main and save_output_csv
\* ------------------------------------------------------------------------

\* Index of the first element of `rs` that is no record, Len(rs) + 1 if none.
FirstException(rs) ==
    LET bad == {i \in 1..Len(rs) : IsException(rs[i])}
    IN  IF bad = {} THEN Len(rs) + 1 ELSE CHOOSE i \in bad : \A j \in bad : i <= j

\* Text is a sequence of tokens; these are the ones the csv module treats
\* specially: the delimiter, the quote character, the line ends.
CsvSpecial == {",", "\"", "\r", "\n"}

RECURSIVE DoubleQuotes(_)
\* Every quote character of a field is written twice.
DoubleQuotes(f) ==
    IF f = <<>> THEN <<>>
    ELSE (IF Head(f) = "\"" THEN <<"\"", "\"">> ELSE <<Head(f)>>) \o DoubleQuotes(Tail(f))

\* Faulty variant: fields are written as they are.
QuoteFieldNever(f) == f

\* csv.DictWriter with the default dialect (QUOTE_MINIMAL): a field that
\* holds a special character is enclosed in quotes.
QuoteField(f) ==
    IF \E i \in DOMAIN f : f[i] \in CsvSpecial
    THEN <<"\"">> \o DoubleQuotes(f) \o <<"\"">>
    ELSE f

RECURSIVE CsvLine(_)
\* The fields of a row, quoted where needed, joined by the delimiter.
CsvLine(fields) ==
    IF fields = <<>> THEN <<>>
    ELSE IF Len(fields) = 1 THEN QuoteField(fields[1])
    ELSE QuoteField(Head(fields)) \o <<",">> \o CsvLine(Tail(fields))

\* field_names = ['search_engine', 'url', 'http_code']; writer.writeheader()
CsvHeader == CsvLine(<<<<"search_engine">>, <<"url">>, <<"http_code">>>>)

\* writer.writerow(item): the three values in the order of field_names,
\* each as str() gives it.
CsvRow(item) ==
    CsvLine(<<<<item.search_engine>>, item.url, <<ToString(item.http_code)>>>>)

\* The file once the header and the first k rows are written.
CsvWritten(rs, k) ==
    [exists |-> TRUE, rows |-> <<CsvHeader>> \o [i \in 1..k |-> CsvRow(rs[i])]]

\* save_output_csv: open(filename, 'w'), the header, one row per record.
\* k = Len(rs): all of it is written; k = -1: open raises OSError and the
\* file is as it was; otherwise a write raises OSError after k rows.  The
\* OSError is logged, not raised.
save_output_csv(rs, k) == IF k = -1 THEN csv_file ELSE CsvWritten(rs, k)

\* main: `if results`: log every item (`item.get` on an exception object
\* raises AttributeError), then the CSV; else "No results returned".
Report(k) ==
    /\ pc = "report"
    /\ LET stop == FirstException(results)
       IN  /\ printed' = SubSeq(results, 1, stop - 1)
           /\ IF stop <= Len(results)
              THEN /\ pc' = "crashed"
                   /\ exc' = Uncaught("AttributeError", "main")
                   /\ UNCHANGED <<csv_file, csv_error>>
              ELSE /\ pc' = "done"
                   /\ IF results # <<>> /\ ARGS.write_csv
                      THEN /\ csv_file' = save_output_csv(results, k)
                           /\ csv_error' = (k < Len(results))
                      ELSE UNCHANGED <<csv_file, csv_error>>
                   /\ UNCHANGED exc
    /\ UNCHANGED <<ARGS, googleVars, bingVars, batchVars, files, results>>

\* ------------------------------------------------------------------------
\* Specifications
\* ------------------------------------------------------------------------

\* Results the Google index still holds for the query.
Remaining == MaxResults - Len(extract_google_urls(google_search_results))

\* Pages the Google API can answer with in a full run.
GooglePages ==
    UNION {{[i \in 1..n |-> [link |-> s[i]]] : s \in SeqN(URLS, n)} :
              n \in 0..Min(PageCap, Remaining)}

\* Answers the Bing API can give in a full run.
BingAnswers ==
    {BingFailed, BingNoWebPages} \cup
    {BingWebPages([i \in 1..Len(s) |-> [url |-> s[i]]]) : s \in SeqUpTo(URLS, MaxResults)}

\* The next step of task i, with whatever the server and the file system
\* answer.
ProbeStep(i) ==
    \/ TaskStart(i)
    \/ \E code \in STATUSES : Respond(i, code)
    \/ RespondFail(i)
    \/ \E ok \in BOOLEAN : Open(i, ok)
    \/ \E how \in {"ok", "read", "write"} : Write(i, how)
    \/ \E ok \in BOOLEAN : Close(i, ok)

Probe == \E i \in DOMAIN tasks : ProbeStep(i)

Next ==
    \/ ParseArgs
    \/ MainGoogle
    \/ \E page \in GooglePages : GooglePage(page)
    \/ GoogleHttpError
    \/ GoogleTransportError
    \/ MainGoogleResults
    \/ Probe
    \/ Gather
    \/ MainBing
    \/ \E answer \in BingAnswers : BingSearch(answer)
    \/ MainBingResults
    \/ \E k \in -1..Len(results) : Report(k)

Spec == Init /\ [][Next]_vars

\* google_search alone, against an API that serves empty, short and full
\* pages for as long as it is asked.
PagingSizes == {0, 1, PageCap}

UrlList == <<URL_AX, URL_B>>

\* The page of n results that starts at result number s.
PageAt(s, n) ==
    [j \in 1..n |-> [link |-> UrlList[((s + j) % Len(UrlList)) + 1]]]

PagingArgs == {a \in ArgsSpace : a.search_query /\ GoogleConfigured(a)}

InitPaging == InitWith(PagingArgs, "parse")

NextPaging ==
    \/ ParseArgs
    \/ MainGoogle
    \/ \E n \in PagingSizes : GooglePage(PageAt(start, n))
    \/ GoogleHttpError
    \/ GoogleTransportError

SpecPaging == InitPaging /\ [][NextPaging]_vars

\* check_all_urls alone, called with any URL list and either engine tag.
BatchArgs ==
    {a \in ArgsSpace : a.search_query /\ GoogleConfigured(a) /\ BingConfigured(a)
                          /\ ~a.write_csv}

InitBatch == InitWith(BatchArgs, "call")

CallCheckAllUrls(urlList, engine) ==
    /\ pc = "call"
    /\ EnterBatch(urlList, engine)
    /\ pc' = "check_all_urls"
    /\ UNCHANGED <<ARGS, exc, googleVars, bingVars, files, results, sinkVars>>

NextBatch ==
    \/ \E urlList \in SeqUpTo(URLS, MaxUrls), engine \in {"Google", "Bing"} :
           CallCheckAllUrls(urlList, engine)
    \/ Probe
    \/ Gather

SpecBatch == InitBatch /\ [][NextBatch]_vars

\* The event loop runs every task that can run, every request is answered
\* or fails, every file operation ends; gather returns once it can.
SpecBatchFair == SpecBatch /\ WF_vars(Probe) /\ WF_vars(Gather)


\* ------------------------------------------------------------------------
\* Properties
\* ------------------------------------------------------------------------

\* check_all_urls has returned to its caller.
Returned == session = "closed" /\ pc # "crashed"

SomeFailed == \E i \in DOMAIN tasks : Failed(tasks[i])

SomeSucceeded == \E i \in DOMAIN tasks : IsOutcome(tasks[i].result)

\* C1: whatever the URL list and whichever probes fail, the sequence that
\* check_all_urls returns has exactly as many elements as the URL list.
C1_Cardinality == Returned => Len(responses) = Len(urls)

\* check_all_urls has returned for three URLs, one probe failed, one did not.
C1_Witness ==
    Returned /\ Len(urls) = 3 /\ Len(responses) = 3 /\ SomeFailed /\ SomeSucceeded

\* C2: a probe that raises neither cancels a sibling nor reaches the caller
\* of check_all_urls: the call returns, every probe has run to completion,
\* and every probe that produced a record has it in the returned sequence.
C2_Isolation ==
    /\ exc = NoExc
    /\ \A i \in DOMAIN tasks : tasks[i].pc # "cancelled"
    /\ Returned =>
          \A i \in DOMAIN tasks :
              /\ tasks[i].pc = "done"
              /\ IsOutcome(tasks[i].result) =>
                    i \in DOMAIN responses /\ responses[i] = tasks[i].result

\* The first probe raised, its siblings returned records, all are in the
\* returned sequence.
C2_Witness ==
    /\ Returned
    /\ Len(urls) = 3
    /\ IsException(responses[1])
    /\ IsOutcome(responses[2])
    /\ IsOutcome(responses[3])

\* A probe of the batch failed at the network level.
NetworkFailure(x) == x = Exception("ClientError")

\* C3: a probe that fails at the network level does not abort the run; it
\* is in `results` as a record with its engine and url and no status, and
\* main reports one record for every probed URL.
C3_ProbeFailureReported ==
    /\ \A i \in DOMAIN results : ~NetworkFailure(results[i])
    /\ (\E i \in DOMAIN tasks : NetworkFailure(tasks[i].result)) => pc # "crashed"
    /\ pc = "done" => Len(printed) = Len(results)

\* C4: without a complete credential set the process stops with the
\* configuration error and no search request or probe is ever issued.
C4_ConfigErrorBeforeNetwork ==
    ((~ARGS.google_api \/ ~ARGS.google_cse) /\ ~ARGS.bing_key) =>
        /\ pc \in {"parse", "config_error"}
        /\ requested = <<>>
        /\ bing_calls = 0
        /\ probes_issued = 0

\* A Google key without the CSE id and no Bing key: stopped at validation.
C4_Witness ==
    /\ pc = "config_error"
    /\ ARGS.search_query /\ ARGS.google_api /\ ~ARGS.google_cse /\ ~ARGS.bing_key
    /\ requested = <<>> /\ bing_calls = 0 /\ probes_issued = 0


\* C5: a failure of a search provider is never fatal: no exception leaves
\* google_search or the Bing path, the failing engine contributes no URL,
\* and main goes on to the other engine and to the report.
C5_ProviderFailureNotFatal ==
    /\ exc.where \notin {"google_search", "extract_bing_urls"}
    /\ google_search_results.err =>
          \A i \in DOMAIN results : IsOutcome(results[i]) => results[i].search_engine # "Google"
    /\ bing_search_results.kind = "error" =>
          \A i \in DOMAIN results : IsOutcome(results[i]) => results[i].search_engine # "Bing"

\* The pages served so far are k full pages and then an empty one.
FullThenEmpty(k) ==
    /\ Len(served) >= k + 1
    /\ \A i \in 1..k : served[i] = 10
    /\ served[k + 1] = 0

\* C6: k full pages (0 <= k < 10) followed by an empty page give exactly
\* 10*k URLs from exactly k+1 requests, at the offsets 1, 11, ..., 10k+1,
\* and no request follows the empty page.
C6_StopsOnEmptyPage ==
    \A k \in 0..9 :
        FullThenEmpty(k) =>
            /\ pc = "google_done"
            /\ Len(extract_google_urls(google_search_results)) = 10 * k
            /\ requested = [i \in 1..(k + 1) |-> 10 * (i - 1) + 1]

\* Three full pages and an empty one: 30 URLs from 4 requests.
C6_Witness ==
    /\ pc = "google_done"
    /\ served = <<10, 10, 10, 0>>
    /\ requested = <<1, 11, 21, 31>>
    /\ Len(extract_google_urls(google_search_results)) = 30

\* No page served so far was empty, none held more than 10 items.
NeverEmpty == \A i \in DOMAIN served : served[i] \in 1..10

\* C7: against an API that never serves an empty page google_search makes
\* at most 10 requests, none at an offset above 100, has returned once the
\* tenth is answered, and the extracted list has at most 100 entries.
C7_Ceiling ==
    /\ Len(requested) <= 10
    /\ \A i \in DOMAIN requested : requested[i] <= 100
    /\ (NeverEmpty /\ Len(served) = 10) => pc = "google_done"
    /\ NeverEmpty => Len(extract_google_urls(google_search_results)) <= 100

\* Ten full pages: the loop has ended with 100 URLs.
C7_Witness ==
    /\ pc = "google_done"
    /\ served = [i \in 1..10 |-> 10]
    /\ requested[10] = 91
    /\ Len(extract_google_urls(google_search_results)) = 100

\* C8: a Bing answer without the webPages member yields zero URLs and the
\* run continues normally instead of failing.
C8_MissingWebPages ==
    (bing_search_results.kind = "json" /\ ~bing_search_results.webPages) =>
        /\ pc # "crashed"
        /\ search_engine # "Bing"

Downloaded(t) == ARGS.download /\ t.http_code = 200

C10_WriteFailureKeepsOutcome ==
    \A i \in DOMAIN tasks :
        (tasks[i].pc = "done" /\ tasks[i].http_code = 200) =>
            tasks[i].result # Exception("OSError")

\* C11: check_all_urls is a join barrier: in the step in which it returns,
\* every probe of the batch has finished and the value returned holds one
\* element for each URL, none of them missing.
C11_JoinBarrier ==
    [][(pc = "check_all_urls" /\ pc' \in {"bing", "report"}) =>
          /\ \A i \in DOMAIN urls : tasks[i].pc = "done" /\ tasks[i].result # NoResult
          /\ DOMAIN responses' = DOMAIN urls
          /\ \A i \in DOMAIN urls : responses'[i] = tasks[i].result]_vars

\* check_all_urls has returned for two URLs whose probes both finished.
C11_Witness ==
    /\ Returned
    /\ Len(urls) = 2
    /\ AllDone(tasks)
    /\ responses = <<tasks[1].result, tasks[2].result>>

\* ------------------------------------------------------------------------
\* save_output_csv alone
\* ------------------------------------------------------------------------

\* URLs that hold the delimiter and the quote character.
URL_COMMA == <<"c", "/", "y", ",", "z">>

URL_QUOTE == <<"d", "/", "\"", "w", "\"">>

\* Records save_output_csv can be handed.
CsvRecords ==
    {Outcome(e, u, c) : e \in {"Google", "Bing"},
                        u \in URLS \cup {URL_COMMA, URL_QUOTE}, c \in STATUSES}

CsvArgs ==
    {a \in ArgsSpace : a.search_query /\ GoogleConfigured(a) /\ BingConfigured(a)
                          /\ a.write_csv /\ ~a.download}

InitCsv == InitWith(CsvArgs, "csv_call")

\* save_output_csv("fossick-results.csv", rs)
CallSaveOutputCsv(rs, k) ==
    /\ pc = "csv_call"
    /\ results' = rs
    /\ csv_file' = save_output_csv(rs, k)
    /\ csv_error' = (k < Len(rs))
    /\ pc' = "csv_done"
    /\ UNCHANGED <<ARGS, exc, googleVars, bingVars, batchVars, files, printed>>

NextCsv ==
    \E rs \in SeqUpTo(CsvRecords, MaxRows) : \E k \in -1..Len(rs) :
        CallSaveOutputCsv(rs, k)

SpecCsv == InitCsv /\ [][NextCsv]_vars

RECURSIVE ReadFields(_, _, _, _)
\* A csv.reader with the default dialect over one line: `rest` is what is
\* left of the line, `cur` the field being read, `quoted` whether the
\* reader is inside quotes, `acc` the fields read.
ReadFields(rest, cur, quoted, acc) ==
    IF rest = <<>> THEN Append(acc, cur)
    ELSE LET c == Head(rest)
             r == Tail(rest)
         IN  IF quoted
             THEN IF c = "\""
                  THEN IF r # <<>> /\ Head(r) = "\""
                       THEN ReadFields(Tail(r), Append(cur, "\""), TRUE, acc)
                       ELSE ReadFields(r, cur, FALSE, acc)
                  ELSE ReadFields(r, Append(cur, c), TRUE, acc)
             ELSE IF c = "," THEN ReadFields(r, <<>>, FALSE, Append(acc, cur))
             ELSE IF c = "\"" /\ cur = <<>> THEN ReadFields(r, cur, TRUE, acc)
             ELSE ReadFields(r, Append(cur, c), FALSE, acc)

ReadLine(line) == ReadFields(line, <<>>, FALSE, <<>>)

\* C12: save_output_csv, when no OSError stops it, leaves a file made of
\* the header row search_engine,url,http_code and exactly one row per
\* record, and reading row i back gives the search_engine, url and
\* http_code of record i.
C12_CsvRoundTrip ==
    (pc = "csv_done" /\ ~csv_error) =>
        /\ csv_file.exists
        /\ Len(csv_file.rows) = Len(results) + 1
        /\ csv_file.rows[1] = <<"search_engine", ",", "url", ",", "http_code">>
        /\ \A i \in DOMAIN results :
              ReadLine(csv_file.rows[i + 1]) =
                  <<<<results[i].search_engine>>, results[i].url,
                    <<ToString(results[i].http_code)>>>>

\* Two records written, one with a comma and one with quotes in its URL.
C12_Witness ==
    /\ pc = "csv_done" /\ ~csv_error
    /\ Len(results) = 2
    /\ results[1].url = URL_COMMA
    /\ results[2].url = URL_QUOTE
    /\ Len(csv_file.rows) = 3

\* C13: when every configured engine has answered and none of them gave a
\* URL, the run issues no probe, prints no record, writes no CSV file and
\* ends normally.
C13_NoResultsRun ==
    (/\ exc.where # "google_search"
     /\ extract_google_urls(google_search_results) = <<>>
     /\ bing_search_results.value = <<>>) =>
        /\ probes_issued = 0
        /\ printed = <<>>
        /\ ~csv_file.exists
        /\ pc # "crashed"

\* The Google API answered a request after the first with an HTTP error.
ErrorAfterFirstPage == google_search_results.err /\ Len(requested) > 1

\* C14 as stated: after an HTTP error on a page k > 1, google_search hands
\* back the pages it fetched before the error.
C14_PartialResultsKept ==
    ErrorAfterFirstPage => Len(google_search_results.pages) = Len(served)

\* C14 amended: after an HTTP error on a page k > 1, google_search stops
\* and returns '': the pages fetched before the error are dropped and the
\* value is false for main, which takes no URL from Google.
C14_PartialResultsDropped ==
    ErrorAfterFirstPage =>
        /\ pc = "google_done"
        /\ Len(requested) = Len(served) + 1
        /\ google_search_results.pages = <<>>
        /\ extract_google_urls(google_search_results) = <<>>
        /\ ~GoogleTruthy(google_search_results)

\* Two full pages were fetched, the third request was answered by an error.
C14_Witness ==
    /\ ErrorAfterFirstPage
    /\ served = <<10, 10>>
    /\ requested = <<1, 11, 21>>
    /\ google_search_results.pages = <<>>

\* Tasks of the running batch that have issued their GET.
Started ==
    IF pc = "check_all_urls"
    THEN Cardinality({i \in DOMAIN tasks : tasks[i].gets > 0})
    ELSE 0

\* C15: nothing is retried: a task issues one GET, no more, also after a
\* failure; over the run there is one GET per URL submitted; no Google
\* offset is requested twice; the Bing API is called at most once.
C15_NoRetries ==
    /\ \A i \in DOMAIN tasks :
          tasks[i].gets = (IF tasks[i].pc = "created" THEN 0 ELSE 1)
    /\ probes_issued = Len(results) + Started
    /\ \A i, j \in DOMAIN requested : i # j => requested[i] # requested[j]
    /\ bing_calls <= 1

\* The run is over, a GET had failed, and it was issued once.
C15_Witness ==
    /\ pc \in {"done", "crashed"}
    /\ \E i \in DOMAIN results : results[i] = Exception("ClientError")
    /\ \E i \in DOMAIN tasks : Failed(tasks[i]) /\ tasks[i].gets = 1
    /\ probes_issued = Len(results)
    /\ bing_calls = 1

\* C16: a probe that has not finished can always take its next step,
\* whatever its siblings are doing, and a batch of which every request is
\* answered or fails eventually returns.
C16_Progress ==
    /\ [](\A i \in DOMAIN tasks :
            (pc = "check_all_urls" /\ tasks[i].pc # "done") => ENABLED ProbeStep(i))
    /\ (pc = "check_all_urls") ~> Returned

\* The first probe still waits for its answer, the second has finished.
C16_Witness ==
    /\ pc = "check_all_urls"
    /\ Len(urls) >= 2
    /\ tasks[1].pc = "get"
    /\ tasks[2].pc = "done"
    /\ IsOutcome(tasks[2].result)

\* C17: the session of a batch is open before any of its probes issues a
\* request and is closed only when all of them have finished: every GET is
\* issued on an open session, and every probe of the batch was given the
\* one session created for it.
C17_SessionLifetime ==
    /\ session = "none" => tasks = <<>>
    /\ \A i \in DOMAIN tasks :
          /\ tasks[i].session = sessions
          /\ tasks[i].gets > 0 => tasks[i].get_on = "open"
    /\ pc = "check_all_urls" => session = "open"
    /\ session = "closed" => AllDone(tasks)

\* Three probes have issued their GET on the open session, which is closed
\* now that all of them are done.
C17_Witness ==
    /\ session = "closed"
    /\ sessions = 1
    /\ Len(urls) = 3
    /\ \A i \in DOMAIN tasks :
          tasks[i].pc = "done" /\ tasks[i].session = 1 /\ tasks[i].get_on = "open"

\* C18: the value check_all_urls returns is aligned with its URL list:
\* element i is what the probe of urls[i] produced, and when that is a
\* record it carries urls[i], the engine tag of the call and the status
\* received for that URL.
C18_PositionalAlignment ==
    Returned =>
        \A i \in DOMAIN urls :
            /\ i \in DOMAIN responses
            /\ IsException(responses[i]) <=> Failed(tasks[i])
            /\ IsOutcome(responses[i]) =>
                  /\ responses[i].url = urls[i]
                  /\ responses[i].search_engine = search_engine
                  /\ responses[i].http_code = tasks[i].http_code
                  /\ responses[i].http_code \in STATUSES

\* Different URLs with different statuses, each at its own position.
C18_Witness ==
    /\ Returned
    /\ urls = <<URL_AX, URL_B, URL_AX>>
    /\ responses[1] = Outcome(search_engine, URL_AX, 404)
    /\ responses[2] = Outcome(search_engine, URL_B, 200)
    /\ IsException(responses[3])

\* Records of engine e never come after records of engine f in rs.
Precede(rs, e, f) ==
    \A i, j \in DOMAIN rs :
        (IsOutcome(rs[i]) /\ IsOutcome(rs[j]) /\ rs[i].search_engine = f
            /\ rs[j].search_engine = e) => j < i

\* C19: the engines are handled one after the other: while Google probes
\* run the Bing API has not been called, once it is called every Google
\* probe has finished and its session is closed, and in the merged list and
\* in the report the Google records come before the Bing records.
C19_EnginesInSequence ==
    /\ (pc = "check_all_urls" /\ search_engine = "Google") => bing_calls = 0
    /\ (bing_calls > 0 /\ search_engine = "Google") =>
          AllDone(tasks) /\ session = "closed"
    /\ (pc = "check_all_urls" /\ search_engine = "Bing") =>
          \A i \in DOMAIN results :
              IsOutcome(results[i]) => results[i].search_engine = "Google"
    /\ Precede(results, "Google", "Bing")
    /\ Precede(printed, "Google", "Bing")

\* Both engines gave a URL: the Google record is reported first.
C19_Witness ==
    /\ pc = "done"
    /\ Len(results) = 2
    /\ IsOutcome(results[1]) /\ results[1].search_engine = "Google"
    /\ IsOutcome(results[2]) /\ results[2].search_engine = "Bing"
    /\ printed = results

====
